---- MODULE Spec2Model ----
(***************************************************************************)
(* A model of sync_script.py: the custom-format synchroniser.              *)
(*                                                                         *)
(* Python dicts are functions whose DOMAIN is the set of keys, so that     *)
(* `k in d`, `d.get(k, default)` and dict (in)equality mean what they mean *)
(* in the source.  A file name is the pair <<stem, extension>>, an         *)
(* instance name the pair <<family, ordinal>>.  A semantic-version string  *)
(* is the sequence of its dot-separated numbers, a parsed version a record *)
(* [major, minor, patch]; a string is parseable iff it has three parts.    *)
(***************************************************************************)
EXTENDS Integers, Sequences, FiniteSets, TLC

VARIABLES
    dir,              \* the definitions directory, in os.listdir order
    disk,             \* version.json
    remote,           \* per instance: the server's custom formats and quality profiles
    run,              \* number of the current process run
    pc,               \* position of the run in sync_custom_formats
    versions,         \* VersionManager.versions
    custom_formats,   \* the loaded definitions (insertion-ordered dict)
    latest_version,   \* sync_custom_formats' latest_version
    idx,              \* position of the outer loop over custom_formats.items()
    file_version,     \* sync_custom_formats' file_version
    stored_version,   \* sync_custom_formats' stored_version
    inst,             \* position of the inner loop over instances
    existing_formats, \* result of client.get_custom_formats()
    synced_format,    \* result of sync_format
    profiles,         \* sync_format_score's profiles (mutated in place)
    pidx,             \* position of sync_format_score's loop over profiles
    failures,         \* number of failed remote calls and file writes so far
    log,              \* the remote calls and version-file writes of this run, in order
    fetched,          \* the quality profiles as get_quality_profiles returned them
    prevFailed,       \* some remote call or file write of the previous run failed
    prev,             \* the files with a failed leg and whether a write of version.json
                      \* failed, in the previous run
    due               \* the files whose instance loop (line 229) this run has entered

vars == <<dir, disk, remote, run, pc, versions, custom_formats, latest_version, idx,
          file_version, stored_version, inst, existing_formats, synced_format,
          profiles, pidx, failures, log, fetched, prevFailed, prev, due>>

\* ------------------------------------------------------------------ bounds

\* Number of process runs modelled.
MaxRuns == 2
\* Number of failing remote calls or file writes over a behaviour.
MaxFailures == 2

\* ------------------------------------------------------------------ dicts

EmptyDict == <<>>

Has(d, k) == k \in DOMAIN d

Get(d, k, default) == IF k \in DOMAIN d THEN d[k] ELSE default

Put(d, k, v) == [x \in DOMAIN d \cup {k} |-> IF x = k THEN v ELSE d[x]]

Range(s) == {s[i] : i \in 1..Len(s)}

\* ------------------------------------------------------------------ semver

Parseable(s) == Len(s) = 3

parse(s) == [major |-> s[1], minor |-> s[2], patch |-> s[3]]

str(v) == <<v.major, v.minor, v.patch>>

VLess(a, b) ==
    \/ a.major < b.major
    \/ a.major = b.major /\ a.minor < b.minor
    \/ a.major = b.major /\ a.minor = b.minor /\ a.patch < b.patch

DefaultVersionStr == <<0, 0, 0>>

\* ------------------------------------------------------------------ names

TemplateFile == <<"_template", "json">>

IsJson(filename) == filename[2] = "json"

Instances == << <<"Radarr", "001">>, <<"Sonarr", "001">> >>

NoFile == <<"", "">>

\* ------------------------------------------------------------------ VersionManager

NoDisk == [t |-> "none", data |-> EmptyDict]
BadDisk == [t |-> "bad", data |-> EmptyDict]

load_versions(d) ==
    IF d.t = "none" THEN EmptyDict
    ELSE IF d.t = "bad" THEN EmptyDict
    ELSE IF \E k \in DOMAIN d.data : ~Parseable(d.data[k]) THEN EmptyDict
    ELSE [k \in DOMAIN d.data |-> parse(d.data[k])]

Dump(vs) == [t |-> "ok", data |-> [k \in DOMAIN vs |-> str(vs[k])]]

Removed(vs, existing_files) == DOMAIN vs \ Range(existing_files)

\* cleanup_versions with the filter of line 93 inverted.
cleanup_versions_inverted(vs, existing_files) ==
    [k \in {x \in DOMAIN vs : x \notin Range(existing_files)} |-> vs[k]]

cleanup_versions(vs, existing_files) ==
    [k \in {x \in DOMAIN vs : x \in Range(existing_files)} |-> vs[k]]

\* update_version that records a version only for a file it has none for.
update_version_if_absent(vs, filename, new_version) ==
    IF filename \in DOMAIN vs THEN vs ELSE Put(vs, filename, new_version)

\* update_version recording the latest version of the batch for the file.
update_version_to_latest(vs, filename, new_version) == Put(vs, filename, latest_version)

update_version(vs, filename, new_version) == Put(vs, filename, new_version)

\* What a failed write leaves in version.json: open() failed and the file is as it
\* was, or the write broke off after open() truncated it.
AfterFailedSave(d) == {d, BadDisk}

\* ------------------------------------------------------------------ APIClient
\* The server side of the REST calls: a server keeps what it is sent and returns
\* the stored object.

\* POST /api/v3/customformat: the server assigns the id.
ServerCreate(r, custom_format) ==
    [r EXCEPT !.formats = Append(@, Put(custom_format, "id", r.nextId)),
              !.nextId = @ + 1]

\* PUT /api/v3/customformat/{id}
ServerUpdate(r, custom_format) ==
    [r EXCEPT !.formats =
        [j \in 1..Len(@) |-> IF @[j].id = custom_format.id THEN custom_format ELSE @[j]]]

\* PUT /api/v3/qualityprofile/{id}
ServerUpdateProfile(r, profile) ==
    [r EXCEPT !.profiles =
        [j \in 1..Len(@) |-> IF @[j].id = profile.id THEN profile ELSE @[j]]]

\* update_custom_format: an update when the payload carries an id, else a create.
UpsertOp(custom_format) == IF Has(custom_format, "id") THEN "PUT_CF" ELSE "POST_CF"

update_custom_format(r, custom_format) ==
    IF Has(custom_format, "id") THEN ServerUpdate(r, custom_format)
    ELSE ServerCreate(r, custom_format)

\* The object update_custom_format returns (response.json()).
Returned(r, custom_format) ==
    IF Has(custom_format, "id") THEN custom_format
    ELSE Put(custom_format, "id", r.nextId)

\* ------------------------------------------------------------------ CustomFormatSyncer

\* load_custom_formats: the *.json files of the directory, in listing order. The
\* first malformed one raises.
LoadRaises(d) == \E i \in 1..Len(d) : IsJson(d[i].filename) /\ d[i].json = "bad"

IsJsonEntry(e) == IsJson(e.filename)

load_custom_formats(d) ==
    LET js == SelectSeq(d, IsJsonEntry)
    IN [i \in 1..Len(js) |-> [filename |-> js[i].filename, doc |-> js[i].doc]]

Keys(cf) == [i \in 1..Len(cf) |-> cf[i].filename]

VersionStr(format_data) == Get(format_data, "cfSync_version", DefaultVersionStr)

\* Lines 197-209: the latest parseable version over the non-template definitions.
RECURSIVE FindLatest(_, _, _)
FindLatest(cf, i, latest) ==
    IF i > Len(cf) THEN latest
    ELSE IF cf[i].filename = TemplateFile THEN FindLatest(cf, i + 1, latest)
    ELSE IF ~Parseable(VersionStr(cf[i].doc)) THEN FindLatest(cf, i + 1, latest)
    ELSE LET version == parse(VersionStr(cf[i].doc))
         IN FindLatest(cf, i + 1, IF VLess(latest, version) THEN version ELSE latest)

StoredVersion(vs, filename) == Get(vs, filename, parse(DefaultVersionStr))

\* The decision of line 225 without its second clause.
DueNewerOnly(file, stored, latest) == VLess(stored, file)

\* Line 225.
Due(file, stored, latest) == VLess(stored, file) \/ VLess(file, latest)

\* should_sync_to_instance that looks for the full instance name only.
should_sync_by_full_name(format_data, instance_name) ==
    IF Has(format_data, "cfSync_instances")
    THEN instance_name \in Range(format_data["cfSync_instances"])
    ELSE LET instance_type == IF instance_name[1] = "Radarr" THEN "cfSync_radarr"
                              ELSE "cfSync_sonarr"
         IN Get(format_data, instance_type, TRUE)

should_sync_to_instance(format_data, instance_name) ==
    IF Has(format_data, "cfSync_instances")
    THEN LET instance_number == <<instance_name[Len(instance_name)]>>
             instances == format_data["cfSync_instances"]
         IN instance_name \in Range(instances) \/ instance_number \in Range(instances)
    ELSE LET instance_type == IF instance_name[1] = "Radarr" THEN "cfSync_radarr"
                              ELSE "cfSync_sonarr"
         IN Get(format_data, instance_type, TRUE)

\* prepare_format_for_sync that also copies the document's id.
prepare_format_copying_id(format_data) ==
    LET result == [name |-> Get(format_data, "name", ""),
                   includeCustomFormatWhenRenaming |->
                       Get(format_data, "includeCustomFormatWhenRenaming", FALSE)]
        with_id == IF Has(format_data, "id") THEN Put(result, "id", format_data["id"])
                   ELSE result
    IN IF Has(format_data, "specifications")
       THEN Put(with_id, "specifications", format_data["specifications"])
       ELSE with_id

prepare_format_for_sync(format_data) ==
    LET result == [name |-> Get(format_data, "name", ""),
                   includeCustomFormatWhenRenaming |->
                       Get(format_data, "includeCustomFormatWhenRenaming", FALSE)]
    IN IF Has(format_data, "specifications")
       THEN Put(result, "specifications", format_data["specifications"])
       ELSE result

\* A JSON scalar is [t |-> "str" or "num", s |-> its printed form]; str() of it.
PyStr(x) == [t |-> "str", s |-> x.s]

S(x) == [t |-> "str", s |-> x]

\* `fields` is [t |-> "dict", v |-> <<the dict>>], [t |-> "list", v |-> the list of
\* dicts] or [t |-> "other", v |-> <<>>] (a string, a number, null).
FieldsOk(fields_obj) == fields_obj.t \in {"dict", "list"}

\* Lines 304-317.
NormalizeFields(fields_obj) ==
    IF fields_obj.t = "dict"
    THEN [t |-> "list",
          v |-> << [name |-> S("value"),
                    value |-> PyStr(Get(fields_obj.v[1], "value", S("")))] >>]
    ELSE [t |-> "list",
          v |-> [j \in 1..Len(fields_obj.v) |->
                    [name |-> PyStr(Get(fields_obj.v[j], "name", S("value"))),
                     value |-> PyStr(Get(fields_obj.v[j], "value", S("")))]]]

\* The specification at which the loop of lines 298-320 returns None; 0 when none.
FirstInvalid(specs) ==
    LET bad == {j \in 1..Len(specs) : Has(specs[j], "fields") /\ ~FieldsOk(specs[j].fields)}
    IN IF bad = {} THEN 0 ELSE CHOOSE j \in bad : \A k \in bad : j <= k

\* The specifications as the loop leaves them: those before the invalid one are
\* normalised in place.
NormalizeSpecs(specs) ==
    LET stop == FirstInvalid(specs)
    IN [j \in 1..Len(specs) |->
          IF (stop = 0 \/ j < stop) /\ Has(specs[j], "fields")
          THEN Put(specs[j], "fields", NormalizeFields(specs[j].fields))
          ELSE specs[j]]

NormalizeDoc(format_data) ==
    IF Has(format_data, "specifications")
    THEN Put(format_data, "specifications", NormalizeSpecs(format_data["specifications"]))
    ELSE format_data

InvalidFields(format_data) ==
    Has(format_data, "specifications") /\ FirstInvalid(format_data["specifications"]) # 0

\* Line 292.
Matching(formats, name) == {j \in 1..Len(formats) : formats[j].name = name}

HasExisting(formats, name) == Matching(formats, name) # {}

Existing(formats, name) ==
    formats[CHOOSE j \in Matching(formats, name) : \A k \in Matching(formats, name) : j <= k]

\* Lines 326-327: the payload with the existing id, and whether it is written.
\* Line 326 left out.
WithoutId(new_format, existing_format) == new_format

WithId(new_format, existing_format) == Put(new_format, "id", existing_format.id)

\* Line 327 left out: a format found by name is always updated.
AlwaysUpdate(new_format, existing_format) == TRUE

NeedsUpdate(new_format, existing_format) ==
    WithId(new_format, existing_format) # existing_format

\* Lines 348-352 for one profile.
ScoreItems(items, format_id, score) ==
    [j \in 1..Len(items) |->
        IF items[j].format = format_id /\ items[j].score # score
        THEN [items[j] EXCEPT !.score = score]
        ELSE items[j]]

\* Line 350 left out: an item of the format marks the profile, whatever its score.
UpdatedOnMatch(profile, format_id, score) ==
    \E j \in 1..Len(profile.formatItems) : profile.formatItems[j].format = format_id

Updated(profile, format_id, score) ==
    \E j \in 1..Len(profile.formatItems) :
        profile.formatItems[j].format = format_id /\ profile.formatItems[j].score # score

ScoreProfile(profile, format_id, score) ==
    [profile EXCEPT !.formatItems = ScoreItems(@, format_id, score)]

\* ------------------------------------------------------------------ the run

None == EmptyDict

Filename == custom_formats[idx].filename

FormatData == custom_formats[idx].doc

MayFail == failures < MaxFailures

Ev(op, file, i, ok, id) == [op |-> op, file |-> file, inst |-> i, ok |-> ok, id |-> id]

Failed(l) == \E k \in 1..Len(l) : ~l[k].ok

\* What is kept of a run's calls for the next run.
NoFailures == [legs |-> {}, saves |-> FALSE]

Failures(l) ==
    [legs |-> {l[k].file : k \in {m \in 1..Len(l) : l[m].inst > 0 /\ ~l[m].ok}},
     saves |-> \E k \in 1..Len(l) : l[k].inst = 0 /\ ~l[k].ok]

\* CustomFormatSyncer.__init__: the VersionManager loads version.json.
Construct ==
    /\ pc = "start"
    /\ versions' = load_versions(disk)
    /\ pc' = "load"
    /\ UNCHANGED <<dir, disk, remote, run, custom_formats, latest_version, idx,
                   file_version, stored_version, inst, existing_formats,
                   synced_format, profiles, pidx, failures, log, fetched, prevFailed, prev, due>>

\* Lines 189-192.
LoadCustomFormats ==
    /\ pc = "load"
    /\ ~LoadRaises(dir)
    /\ custom_formats' = load_custom_formats(dir)
    /\ pc' = IF Len(custom_formats') = 0 THEN "done" ELSE "cleanup"
    /\ UNCHANGED <<dir, disk, remote, run, versions, latest_version, idx,
                   file_version, stored_version, inst, existing_formats,
                   synced_format, profiles, pidx, failures, log, fetched, prevFailed, prev, due>>

WellFormed(e) == e.json = "ok"

\* load_custom_formats leaving out a malformed file instead of raising.
LoadCustomFormatsSkipsMalformed ==
    /\ pc = "load"
    /\ LoadRaises(dir)
    /\ custom_formats' = load_custom_formats(SelectSeq(dir, WellFormed))
    /\ pc' = IF Len(custom_formats') = 0 THEN "done" ELSE "cleanup"
    /\ UNCHANGED <<dir, disk, remote, run, versions, latest_version, idx,
                   file_version, stored_version, inst, existing_formats,
                   synced_format, profiles, pidx, failures, log, fetched, prevFailed, prev, due>>

\* Lines 180-182, 261-263: malformed JSON aborts the run.
LoadCustomFormatsRaises ==
    /\ pc = "load"
    /\ LoadRaises(dir)
    /\ pc' = "raised"
    /\ UNCHANGED <<dir, disk, remote, run, versions, custom_formats, latest_version,
                   idx, file_version, stored_version, inst, existing_formats,
                   synced_format, profiles, pidx, failures, log, fetched, prevFailed, prev, due>>

\* Line 195, save_versions succeeding when it is called.
CleanupVersions ==
    /\ pc = "cleanup"
    /\ versions' = IF Removed(versions, Keys(custom_formats)) # {}
                   THEN cleanup_versions(versions, Keys(custom_formats))
                   ELSE versions
    /\ disk' = IF Removed(versions, Keys(custom_formats)) # {} THEN Dump(versions')
               ELSE disk
    /\ log' = IF Removed(versions, Keys(custom_formats)) # {}
              THEN Append(log, Ev("SAVE_CLEANUP", NoFile, 0, TRUE, 0))
              ELSE log
    /\ pc' = "latest"
    /\ UNCHANGED <<dir, remote, run, custom_formats, latest_version, idx,
                   file_version, stored_version, inst, existing_formats,
                   synced_format, profiles, pidx, failures, fetched, prevFailed, prev, due>>

\* Line 195, save_versions raising: nothing catches it before line 261.
CleanupVersionsSaveFails ==
    /\ pc = "cleanup"
    /\ MayFail
    /\ Removed(versions, Keys(custom_formats)) # {}
    /\ versions' = cleanup_versions(versions, Keys(custom_formats))
    /\ disk' \in AfterFailedSave(disk)
    /\ log' = Append(log, Ev("SAVE_CLEANUP", NoFile, 0, FALSE, 0))
    /\ failures' = failures + 1
    /\ pc' = "raised"
    /\ UNCHANGED <<dir, remote, run, custom_formats, latest_version, idx,
                   file_version, stored_version, inst, existing_formats,
                   synced_format, profiles, pidx, fetched, prevFailed, prev, due>>

\* Lines 197-209.
FindLatestVersion ==
    /\ pc = "latest"
    /\ latest_version' = FindLatest(custom_formats, 1, parse(DefaultVersionStr))
    /\ idx' = 1
    /\ pc' = "def"
    /\ UNCHANGED <<dir, disk, remote, run, versions, custom_formats,
                   file_version, stored_version, inst, existing_formats,
                   synced_format, profiles, pidx, failures, log, fetched, prevFailed, prev, due>>

NextDefinition ==
    /\ idx' = idx + 1
    /\ pc' = "def"

\* Lines 214-216.
SkipTemplate ==
    /\ pc = "def"
    /\ idx <= Len(custom_formats)
    /\ Filename = TemplateFile
    /\ NextDefinition
    /\ UNCHANGED <<dir, disk, remote, run, versions, custom_formats, latest_version,
                   file_version, stored_version, inst, existing_formats,
                   synced_format, profiles, pidx, failures, log, fetched, prevFailed, prev, due>>

\* Line 256 with `break` for `continue`: the invalid version ends the loop.
InvalidVersionBreaks ==
    /\ pc = "def"
    /\ idx <= Len(custom_formats)
    /\ Filename # TemplateFile
    /\ ~Parseable(VersionStr(FormatData))
    /\ idx' = Len(custom_formats) + 1
    /\ pc' = "def"
    /\ UNCHANGED <<dir, disk, remote, run, versions, custom_formats, latest_version,
                   file_version, stored_version, inst, existing_formats,
                   synced_format, profiles, pidx, failures, log, fetched, prevFailed, prev, due>>

\* Lines 219, 254-256: the ValueError of parse is caught per definition.
InvalidVersion ==
    /\ pc = "def"
    /\ idx <= Len(custom_formats)
    /\ Filename # TemplateFile
    /\ ~Parseable(VersionStr(FormatData))
    /\ NextDefinition
    /\ UNCHANGED <<dir, disk, remote, run, versions, custom_formats, latest_version,
                   file_version, stored_version, inst, existing_formats,
                   synced_format, profiles, pidx, failures, log, fetched, prevFailed, prev, due>>

\* Lines 218-228, 251: the decision.
Decide ==
    /\ pc = "def"
    /\ idx <= Len(custom_formats)
    /\ Filename # TemplateFile
    /\ Parseable(VersionStr(FormatData))
    /\ file_version' = parse(VersionStr(FormatData))
    /\ stored_version' = StoredVersion(versions, Filename)
    /\ inst' = 1
    /\ pc' = IF Due(file_version', stored_version', latest_version) THEN "inst"
             ELSE "no_update"
    /\ due' = IF Due(file_version', stored_version', latest_version)
              THEN due \cup {Filename} ELSE due
    /\ UNCHANGED <<dir, disk, remote, run, versions, custom_formats, latest_version,
                   idx, existing_formats, synced_format, profiles, pidx, failures,
                   log, fetched, prevFailed, prev>>

\* Line 252.
NoUpdatesNeeded ==
    /\ pc = "no_update"
    /\ NextDefinition
    /\ UNCHANGED <<dir, disk, remote, run, versions, custom_formats, latest_version,
                   file_version, stored_version, inst, existing_formats,
                   synced_format, profiles, pidx, failures, log, fetched, prevFailed, prev, due>>

\* The loop of line 211 ends; sync_custom_formats returns.
Finish ==
    /\ pc = "def"
    /\ idx > Len(custom_formats)
    /\ pc' = "done"
    /\ UNCHANGED <<dir, disk, remote, run, versions, custom_formats, latest_version,
                   idx, file_version, stored_version, inst, existing_formats,
                   synced_format, profiles, pidx, failures, log, fetched, prevFailed, prev, due>>

\* ------------------------------------------------------------------ one leg

NextInstance ==
    /\ inst' = inst + 1
    /\ pc' = "inst"

\* Lines 230-232.
SkipInstance ==
    /\ pc = "inst"
    /\ inst <= Len(Instances)
    /\ ~should_sync_to_instance(FormatData, Instances[inst])
    /\ NextInstance
    /\ UNCHANGED <<dir, disk, remote, run, versions, custom_formats, latest_version,
                   idx, file_version, stored_version, existing_formats,
                   synced_format, profiles, pidx, failures, log, fetched, prevFailed, prev, due>>

\* Line 236 done once: a listing that holds formats is used for every later leg.
GetCustomFormatsStale ==
    /\ pc = "inst"
    /\ inst <= Len(Instances)
    /\ should_sync_to_instance(FormatData, Instances[inst])
    /\ existing_formats' = IF existing_formats = <<>> THEN remote[inst].formats
                           ELSE existing_formats
    /\ synced_format' = None
    /\ profiles' = <<>>
    /\ fetched' = <<>>
    /\ pidx' = 1
    /\ log' = Append(log, Ev("GET_CF", Filename, inst, TRUE, 0))
    /\ pc' = "sync_format"
    /\ UNCHANGED <<dir, disk, remote, run, versions, custom_formats, latest_version,
                   idx, file_version, stored_version, inst, failures, prevFailed, prev, due>>

\* Line 236.
GetCustomFormats ==
    /\ pc = "inst"
    /\ inst <= Len(Instances)
    /\ should_sync_to_instance(FormatData, Instances[inst])
    /\ existing_formats' = remote[inst].formats
    /\ synced_format' = None
    /\ profiles' = <<>>
    /\ fetched' = <<>>
    /\ pidx' = 1
    /\ log' = Append(log, Ev("GET_CF", Filename, inst, TRUE, 0))
    /\ pc' = "sync_format"
    /\ UNCHANGED <<dir, disk, remote, run, versions, custom_formats, latest_version,
                   idx, file_version, stored_version, inst, failures, prevFailed, prev, due>>

\* Line 247 with `break` for `continue`: the failure ends the instance loop.
GetCustomFormatsFailsBreaks ==
    /\ pc = "inst"
    /\ inst <= Len(Instances)
    /\ should_sync_to_instance(FormatData, Instances[inst])
    /\ MayFail
    /\ failures' = failures + 1
    /\ log' = Append(log, Ev("GET_CF", Filename, inst, FALSE, 0))
    /\ pc' = "update_version"
    /\ UNCHANGED <<dir, disk, remote, run, versions, custom_formats, latest_version,
                   idx, file_version, stored_version, inst, existing_formats,
                   synced_format, profiles, pidx, fetched, prevFailed, prev, due>>

\* Lines 236, 245-247.
GetCustomFormatsFails ==
    /\ pc = "inst"
    /\ inst <= Len(Instances)
    /\ should_sync_to_instance(FormatData, Instances[inst])
    /\ MayFail
    /\ failures' = failures + 1
    /\ log' = Append(log, Ev("GET_CF", Filename, inst, FALSE, 0))
    /\ NextInstance
    /\ UNCHANGED <<dir, disk, remote, run, versions, custom_formats, latest_version,
                   idx, file_version, stored_version, existing_formats,
                   synced_format, profiles, pidx, fetched, prevFailed, prev, due>>

\* Lines 237, 295-320: the payload; its specifications are the definition's own
\* list, normalised in place.
NewFormat == prepare_format_for_sync(NormalizeDoc(FormatData))

\* The normalisation working on a copy: the loaded definition stays as it was.
NormalizedCopy == custom_formats

Normalized == [custom_formats EXCEPT ![idx].doc = NormalizeDoc(@)]

ExistingFormat == Existing(existing_formats, NewFormat.name)

\* What sync_format hands to update_custom_format.
Payload ==
    IF HasExisting(existing_formats, NewFormat.name)
    THEN WithId(NewFormat, ExistingFormat)
    ELSE NewFormat

WritesFormat ==
    HasExisting(existing_formats, NewFormat.name) => NeedsUpdate(NewFormat, ExistingFormat)

\* Line 240 without its test of synced_format.
AfterSyncFormatUnchecked(result) ==
    pc' = IF Has(FormatData, "cfSync_score") THEN "get_qp" ELSE "synced"

\* Lines 240-244: after sync_format.
AfterSyncFormat(result) ==
    pc' = IF result # None /\ Has(FormatData, "cfSync_score") THEN "get_qp" ELSE "synced"

\* Lines 318-320: sync_format returns None.
SyncFormatInvalid ==
    /\ pc = "sync_format"
    /\ InvalidFields(FormatData)
    /\ custom_formats' = Normalized
    /\ synced_format' = None
    /\ AfterSyncFormat(synced_format')
    /\ UNCHANGED <<dir, disk, remote, run, versions, latest_version, idx,
                   file_version, stored_version, inst, existing_formats, profiles,
                   pidx, failures, log, fetched, prevFailed, prev, due>>

\* Lines 325-331: the payload equals the existing format.
SyncFormatUnchanged ==
    /\ pc = "sync_format"
    /\ ~InvalidFields(FormatData)
    /\ ~WritesFormat
    /\ custom_formats' = Normalized
    /\ synced_format' = ExistingFormat
    /\ AfterSyncFormat(synced_format')
    /\ UNCHANGED <<dir, disk, remote, run, versions, latest_version, idx,
                   file_version, stored_version, inst, existing_formats, profiles,
                   pidx, failures, log, fetched, prevFailed, prev, due>>

\* Lines 328-330, 333-335: the update or the create succeeds.
SyncFormatWrite ==
    /\ pc = "sync_format"
    /\ ~InvalidFields(FormatData)
    /\ WritesFormat
    /\ custom_formats' = Normalized
    /\ remote' = [remote EXCEPT ![inst] = update_custom_format(@, Payload)]
    /\ synced_format' = Returned(remote[inst], Payload)
    /\ log' = Append(log, Ev(UpsertOp(Payload), Filename, inst, TRUE, synced_format'.id))
    /\ AfterSyncFormat(synced_format')
    /\ UNCHANGED <<dir, disk, run, versions, latest_version, idx, file_version,
                   stored_version, inst, existing_formats, profiles, pidx,
                   failures, fetched, prevFailed, prev, due>>

\* Lines 336-338, 245-247.
SyncFormatWriteFails ==
    /\ pc = "sync_format"
    /\ ~InvalidFields(FormatData)
    /\ WritesFormat
    /\ MayFail
    /\ failures' = failures + 1
    /\ custom_formats' = Normalized
    /\ log' = Append(log, Ev(UpsertOp(Payload), Filename, inst, FALSE, Get(Payload, "id", 0)))
    /\ NextInstance
    /\ UNCHANGED <<dir, disk, remote, run, versions, latest_version, idx,
                   file_version, stored_version, existing_formats, synced_format,
                   profiles, pidx, fetched, prevFailed, prev, due>>

\* Line 343.
GetQualityProfiles ==
    /\ pc = "get_qp"
    /\ profiles' = remote[inst].profiles
    /\ fetched' = remote[inst].profiles
    /\ pidx' = 1
    /\ log' = Append(log, Ev("GET_QP", Filename, inst, TRUE, 0))
    /\ pc' = "profile"
    /\ UNCHANGED <<dir, disk, remote, run, versions, custom_formats, latest_version,
                   idx, file_version, stored_version, inst, existing_formats,
                   synced_format, failures, prevFailed, prev, due>>

\* Lines 343, 359-361, 245-247.
GetQualityProfilesFails ==
    /\ pc = "get_qp"
    /\ MayFail
    /\ failures' = failures + 1
    /\ log' = Append(log, Ev("GET_QP", Filename, inst, FALSE, 0))
    /\ NextInstance
    /\ UNCHANGED <<dir, disk, remote, run, versions, custom_formats, latest_version,
                   idx, file_version, stored_version, existing_formats,
                   synced_format, profiles, pidx, fetched, prevFailed, prev, due>>

Score == FormatData["cfSync_score"]

\* Lines 344-354 for a profile no item of which changes.
ProfileUnchanged ==
    /\ pc = "profile"
    /\ pidx <= Len(profiles)
    /\ ~Updated(profiles[pidx], synced_format.id, Score)
    /\ pidx' = pidx + 1
    /\ UNCHANGED <<dir, disk, remote, run, pc, versions, custom_formats,
                   latest_version, idx, file_version, stored_version, inst,
                   existing_formats, synced_format, profiles, failures, log,
                   fetched, prevFailed, prev, due>>

\* Lines 344-357: the profile is written back in full.
UpdateQualityProfile ==
    /\ pc = "profile"
    /\ pidx <= Len(profiles)
    /\ Updated(profiles[pidx], synced_format.id, Score)
    /\ profiles' = [profiles EXCEPT ![pidx] = ScoreProfile(@, synced_format.id, Score)]
    /\ remote' = [remote EXCEPT ![inst] = ServerUpdateProfile(@, profiles'[pidx])]
    /\ log' = Append(log, Ev("PUT_QP", Filename, inst, TRUE, profiles[pidx].id))
    /\ pidx' = pidx + 1
    /\ UNCHANGED <<dir, disk, run, pc, versions, custom_formats, latest_version, idx,
                   file_version, stored_version, inst, existing_formats,
                   synced_format, failures, fetched, prevFailed, prev, due>>

\* Lines 355, 359-361, 245-247.
UpdateQualityProfileFails ==
    /\ pc = "profile"
    /\ pidx <= Len(profiles)
    /\ Updated(profiles[pidx], synced_format.id, Score)
    /\ MayFail
    /\ failures' = failures + 1
    /\ profiles' = [profiles EXCEPT ![pidx] = ScoreProfile(@, synced_format.id, Score)]
    /\ log' = Append(log, Ev("PUT_QP", Filename, inst, FALSE, profiles[pidx].id))
    /\ NextInstance
    /\ UNCHANGED <<dir, disk, remote, run, versions, custom_formats, latest_version,
                   idx, file_version, stored_version, existing_formats,
                   synced_format, pidx, fetched, prevFailed, prev, due>>

\* sync_format_score returns.
ScoreDone ==
    /\ pc = "profile"
    /\ pidx > Len(profiles)
    /\ pc' = "synced"
    /\ UNCHANGED <<dir, disk, remote, run, versions, custom_formats, latest_version,
                   idx, file_version, stored_version, inst, existing_formats,
                   synced_format, profiles, pidx, failures, log, fetched, prevFailed, prev, due>>

\* Line 244.
LegSynced ==
    /\ pc = "synced"
    /\ NextInstance
    /\ UNCHANGED <<dir, disk, remote, run, versions, custom_formats, latest_version,
                   idx, file_version, stored_version, existing_formats,
                   synced_format, profiles, pidx, failures, log, fetched, prevFailed, prev, due>>

\* Line 249 reached only when no leg of the definition failed.
InstancesDoneUnlessFailed ==
    /\ pc = "inst"
    /\ inst > Len(Instances)
    /\ IF \E k \in 1..Len(log) : log[k].file = Filename /\ ~log[k].ok
       THEN idx' = idx + 1 /\ pc' = "def"
       ELSE idx' = idx /\ pc' = "update_version"
    /\ UNCHANGED <<dir, disk, remote, run, versions, custom_formats, latest_version,
                   file_version, stored_version, inst, existing_formats,
                   synced_format, profiles, pidx, failures, log, fetched, prevFailed, prev, due>>

\* The loop of line 229 ends.
InstancesDone ==
    /\ pc = "inst"
    /\ inst > Len(Instances)
    /\ pc' = "update_version"
    /\ UNCHANGED <<dir, disk, remote, run, versions, custom_formats, latest_version,
                   idx, file_version, stored_version, inst, existing_formats,
                   synced_format, profiles, pidx, failures, log, fetched, prevFailed, prev, due>>

\* Lines 249-250.
UpdateVersion ==
    /\ pc = "update_version"
    /\ versions' = update_version(versions, Filename, file_version)
    /\ disk' = Dump(versions')
    /\ log' = Append(log, Ev("UPDATE_VERSION", Filename, 0, TRUE, 0))
    /\ NextDefinition
    /\ UNCHANGED <<dir, remote, run, custom_formats, latest_version, file_version,
                   stored_version, inst, existing_formats, synced_format, profiles,
                   pidx, failures, fetched, prevFailed, prev, due>>

\* Lines 249, 257-259: save_versions raises inside the definition's try block, and
\* `except Exception` logs it and continues with the next definition.
UpdateVersionSaveFails ==
    /\ pc = "update_version"
    /\ MayFail
    /\ failures' = failures + 1
    /\ versions' = update_version(versions, Filename, file_version)
    /\ disk' \in AfterFailedSave(disk)
    /\ log' = Append(log, Ev("UPDATE_VERSION", Filename, 0, FALSE, 0))
    /\ NextDefinition
    /\ UNCHANGED <<dir, remote, run, custom_formats, latest_version, file_version,
                   stored_version, inst, existing_formats, synced_format, profiles,
                   pidx, fetched, prevFailed, prev, due>>

\* main() ends (exit status 0 after "done", 1 after "raised"); the script is run
\* again later on the same directory.
NextRun ==
    /\ pc \in {"done", "raised"}
    /\ run < MaxRuns
    /\ run' = run + 1
    /\ pc' = "start"
    /\ versions' = EmptyDict
    /\ custom_formats' = <<>>
    /\ latest_version' = parse(DefaultVersionStr)
    /\ idx' = 1
    /\ file_version' = parse(DefaultVersionStr)
    /\ stored_version' = parse(DefaultVersionStr)
    /\ inst' = 1
    /\ existing_formats' = <<>>
    /\ synced_format' = None
    /\ profiles' = <<>>
    /\ fetched' = <<>>
    /\ pidx' = 1
    /\ log' = <<>>
    /\ prevFailed' = Failed(log)
    /\ prev' = Failures(log)
    /\ due' = {}
    /\ UNCHANGED <<dir, disk, remote, failures>>

\* ------------------------------------------------------------------ inputs

FileA == <<"a", "json">>
FileB == <<"b", "json">>
FileOld == <<"old", "json">>
FileNotes == <<"notes", "txt">>

V100 == <<1, 0, 0>>
V110 == <<1, 1, 0>>
V900 == <<9, 0, 0>>
V021 == <<0, 2, 1>>
V101 == <<1, 0, 1>>
VBad == <<1, 0>>

\* {"name": "s", "fields": {"value": "abc"}}
SpecShorthand == [name |-> "s", fields |-> [t |-> "dict", v |-> << [value |-> S("abc")] >>]]
\* {"name": "s", "fields": [{"name": "value", "value": "abc"}]}
SpecList == [name |-> "s",
             fields |-> [t |-> "list", v |-> << [name |-> S("value"), value |-> S("abc")] >>]]
\* {"name": "n", "fields": {"value": 5}}
SpecNumber == [name |-> "n",
               fields |-> [t |-> "dict", v |-> << [value |-> [t |-> "num", s |-> "5"]] >>]]
\* {"name": "l", "fields": [{"value": 7, "label": "q"}, {"name": "min", "value": "1"}]}
SpecLoose == [name |-> "l",
              fields |-> [t |-> "list",
                          v |-> << [value |-> [t |-> "num", s |-> "7"], label |-> S("q")],
                                   [name |-> S("min"), value |-> S("1")] >>]]
\* {"name": "s", "fields": "abc"}
SpecInvalid == [name |-> "s", fields |-> [t |-> "other", v |-> <<>>]]

DocA(v) == [name |-> "x", includeCustomFormatWhenRenaming |-> FALSE,
            specifications |-> <<SpecShorthand>>, cfSync_version |-> v, cfSync_score |-> 5]
DocB(n, v) == [id |-> 9, name |-> n, cfSync_version |-> v, cfSync_score |-> 7,
               cfSync_sonarr |-> FALSE]
DocInvalid == [name |-> "z", specifications |-> <<SpecList, SpecInvalid>>,
               cfSync_version |-> V100, cfSync_score |-> 5]
DocTemplate == [name |-> "template", cfSync_version |-> V900, cfSync_score |-> 1]

Entry(filename, doc) == [filename |-> filename, json |-> "ok", doc |-> doc]
Malformed(filename) == [filename |-> filename, json |-> "bad", doc |-> EmptyDict]

Dirs ==
    {<<>>, <<Entry(FileNotes, EmptyDict)>>,
     <<Entry(FileA, DocA(V100)), Malformed(FileB)>>,
     <<Entry(FileNotes, EmptyDict), Entry(FileA, DocInvalid)>>,
     <<Entry(FileA, DocB("y", VBad)), Entry(FileB, DocA(V100))>>,
     <<Entry(FileA, DocInvalid), Entry(FileB, DocB("y", V100))>>}
    \cup {<<Entry(FileA, DocA(va)), Entry(FileB, DocB(n, vb))>> :
            va \in {V100, V110}, vb \in {V100, V110, V021}, n \in {"x", "y"}}
    \cup {<<Entry(TemplateFile, DocTemplate), Entry(FileA, DocA(va)),
            Entry(FileB, DocB("y", VBad))>> : va \in {V100, V110}}

Disks ==
    {NoDisk,
     [t |-> "ok", data |-> (FileA :> V100) @@ (FileOld :> V100)],
     [t |-> "ok", data |-> (FileA :> V110) @@ (FileB :> V100) @@ (TemplateFile :> V100)],
     [t |-> "ok", data |-> (FileA :> V101) @@ (FileB :> V021)],
     [t |-> "ok", data |-> (FileA :> VBad) @@ (FileB :> V110)]}

ProfileEmpty == [id |-> 1, name |-> "p", formatItems |-> <<>>]
ProfileScored == [id |-> 1, name |-> "p",
                  formatItems |-> <<[format |-> 1, score |-> 0], [format |-> 2, score |-> 3]>>]

RemoteEmpty == [formats |-> <<>>, profiles |-> <<ProfileEmpty>>, nextId |-> 1]
RemoteOld ==
    [formats |-> <<[id |-> 1, name |-> "x", includeCustomFormatWhenRenaming |-> TRUE,
                    specifications |-> <<>>]>>,
     profiles |-> <<ProfileScored>>, nextId |-> 3]

Remotes == {<<RemoteEmpty, RemoteEmpty>>, <<RemoteOld, RemoteEmpty>>, <<RemoteOld, RemoteOld>>}

\* The state of a process that has just started.
Fresh ==
    /\ run = 1
    /\ pc = "start"
    /\ versions = EmptyDict
    /\ custom_formats = <<>>
    /\ latest_version = parse(DefaultVersionStr)
    /\ idx = 1
    /\ file_version = parse(DefaultVersionStr)
    /\ stored_version = parse(DefaultVersionStr)
    /\ inst = 1
    /\ existing_formats = <<>>
    /\ synced_format = None
    /\ profiles = <<>>
    /\ fetched = <<>>
    /\ pidx = 1
    /\ failures = 0
    /\ log = <<>>
    /\ prevFailed = FALSE
    /\ prev = NoFailures
    /\ due = {}

Init ==
    /\ dir \in Dirs
    /\ disk \in Disks
    /\ remote \in Remotes
    /\ Fresh

Plan ==
    \/ Construct
    \/ LoadCustomFormats
    \/ LoadCustomFormatsRaises
    \/ CleanupVersions
    \/ CleanupVersionsSaveFails
    \/ FindLatestVersion
    \/ SkipTemplate
    \/ InvalidVersion
    \/ Decide
    \/ NoUpdatesNeeded
    \/ Finish

Leg ==
    \/ SkipInstance
    \/ GetCustomFormats
    \/ GetCustomFormatsFails
    \/ SyncFormatInvalid
    \/ SyncFormatUnchanged
    \/ SyncFormatWrite
    \/ SyncFormatWriteFails
    \/ GetQualityProfiles
    \/ GetQualityProfilesFails
    \/ ProfileUnchanged
    \/ UpdateQualityProfile
    \/ UpdateQualityProfileFails
    \/ ScoreDone
    \/ LegSynced
    \/ InstancesDone

Next ==
    \/ Plan
    \/ Leg
    \/ UpdateVersion
    \/ UpdateVersionSaveFails
    \/ NextRun

Spec == Init /\ [][Next]_vars

\* ------------------------------------------------------------------ properties

\* The run is inside the loop of line 211, past a definition's decision.
Decided == pc \in {"no_update", "inst", "sync_format", "get_qp", "profile", "synced",
                   "update_version"}

LegEntered == pc \in {"inst", "sync_format", "get_qp", "profile", "synced", "update_version"}

\* The parseable versions of the non-template definitions of the batch.
BatchVersions ==
    {parse(VersionStr(custom_formats[i].doc)) :
        i \in {j \in 1..Len(custom_formats) :
                  /\ custom_formats[j].filename # TemplateFile
                  /\ Parseable(VersionStr(custom_formats[j].doc))}}

IsLatest(v) ==
    /\ v \in BatchVersions \cup {parse(DefaultVersionStr)}
    /\ \A w \in BatchVersions : ~VLess(v, w)

\* C1: for a non-template definition with a parseable version, with stored the
\* version-store entry of its file (0.0.0 when absent) and latest the maximum
\* parseable version of the non-template definitions, the instance loop is entered
\* iff file > stored or file < latest.
C1_DueIffNewerOrBehind ==
    Decided =>
        /\ file_version = parse(VersionStr(FormatData))
        /\ stored_version = (IF Filename \in DOMAIN versions THEN versions[Filename]
                             ELSE parse(DefaultVersionStr))
        /\ IsLatest(latest_version)
        /\ LegEntered <=> (\/ VLess(stored_version, file_version)
                           \/ VLess(file_version, latest_version))

\* A definition whose version equals the stored one is synced because it is behind
\* the latest version.
C1_Witness ==
    /\ pc = "inst"
    /\ stored_version = file_version
    /\ VLess(file_version, latest_version)

IsWrite(e) == e.op \in {"POST_CF", "PUT_CF", "PUT_QP"}

IsRemote(e) == e.inst > 0

Writes(l) == {k \in 1..Len(l) : IsWrite(l[k])}

Definitions(d) ==
    {i \in 1..Len(d) : IsJson(d[i].filename) /\ d[i].filename # TemplateFile}

DistinctNames(d) ==
    \A i, j \in Definitions(d) :
        i # j => Get(d[i].doc, "name", "") # Get(d[j].doc, "name", "")

DirFiles == {dir[i].filename : i \in 1..Len(dir)}

\* The run is past line 195 or has returned.
PastCleanup == pc \in {"latest", "def", "no_update", "inst", "sync_format", "get_qp",
                       "profile", "synced", "update_version", "done"}

\* C7: in every run the version store, in memory and in the file, holds no entry
\* of a file that is not in the directory once the run is past the cleanup, that
\* is before any version is compared and any remote call made, whatever the
\* directory holds.
C7_StaleEntriesPrunedEveryRun ==
    PastCleanup =>
        /\ DOMAIN versions \subseteq DirFiles
        /\ disk.t = "ok" => DOMAIN disk.data \subseteq DirFiles

\* C8: with _template.json in the directory no remote call is made for it, it is
\* no key of the version store once the store has been cleaned up, and the latest
\* version is the maximum over the other definitions.
C8_TemplateNeverSyncedNorTracked ==
    TemplateFile \in DirFiles =>
        /\ \A k \in 1..Len(log) : log[k].file # TemplateFile
        /\ PastCleanup => TemplateFile \notin DOMAIN versions
        /\ (PastCleanup /\ pc # "latest") => IsLatest(latest_version)

IsSave(e) == e.op \in {"SAVE_CLEANUP", "UPDATE_VERSION"}

\* C3: when save_versions fails, in cleanup_versions or in update_version, the run
\* ends with the error raised out of sync_custom_formats and nothing follows the
\* failed write.
C3_SaveFailureIsFatal ==
    \A k \in 1..Len(log) : (IsSave(log[k]) /\ ~log[k].ok) => (pc = "raised" /\ k = Len(log))

Updates(filename) ==
    {k \in 1..Len(log) : log[k].op = "UPDATE_VERSION" /\ log[k].file = filename}

LegCalls(filename) == {k \in 1..Len(log) : IsRemote(log[k]) /\ log[k].file = filename}

\* The definition at position j of the batch is behind the loop of line 211.
Finished(j) == j < idx

\* C4: the version store is mutated once for every definition that is due, after
\* the last leg of the definition and before the first leg of the next one, to the
\* declared version, also when legs failed; and for no other definition.
C4_VersionRecordedOncePerDueDefinition ==
    \A j \in 1..Len(custom_formats) :
        LET f == custom_formats[j].filename
        IN IF Finished(j) /\ f \in due
           THEN /\ Cardinality(Updates(f)) = 1
                /\ f \in DOMAIN versions
                /\ versions[f] = parse(VersionStr(custom_formats[j].doc))
                /\ \A u \in Updates(f) :
                      /\ \A k \in LegCalls(f) : k < u
                      /\ \A m \in 1..Len(custom_formats) :
                            m > j => \A k \in LegCalls(custom_formats[m].filename) : u < k
           ELSE Updates(f) = {}

\* A definition's version is recorded although one of its legs failed, the stored
\* version being another one before.
C4_Witness ==
    \E j \in 1..Len(custom_formats) :
        /\ Finished(j)
        /\ Cardinality(Updates(custom_formats[j].filename)) = 1
        /\ \E k \in LegCalls(custom_formats[j].filename) : ~log[k].ok
        /\ \E m \in 1..Len(custom_formats) :
              m > j /\ LegCalls(custom_formats[m].filename) # {}

Eligible(filename) ==
    {i \in 1..Len(Instances) :
        \E j \in 1..Len(custom_formats) :
            /\ custom_formats[j].filename = filename
            /\ should_sync_to_instance(custom_formats[j].doc, Instances[i])}

\* C5: a remote call that fails is the last call of its leg, and a run that ends
\* has attempted every eligible instance of every due definition.
C5_FailureEndsOnlyItsLeg ==
    /\ \A k \in 1..Len(log) :
          (IsRemote(log[k]) /\ ~log[k].ok) =>
              \A m \in 1..Len(log) :
                  (m > k /\ IsRemote(log[m])) =>
                      ~(log[m].file = log[k].file /\ log[m].inst = log[k].inst)
    /\ pc = "done" =>
          \A f \in due : \A i \in Eligible(f) :
              \E k \in 1..Len(log) : log[k].op = "GET_CF" /\ log[k].file = f /\ log[k].inst = i

\* The first leg of the first definition fails; its second instance and the next
\* definition are synced all the same.
C5_Witness ==
    /\ pc = "done"
    /\ \E k, m, n \in 1..Len(log) :
          /\ IsRemote(log[k]) /\ ~log[k].ok /\ log[k].inst = 1
          /\ m > k /\ log[m].file = log[k].file /\ log[m].inst = 2 /\ IsWrite(log[m])
          /\ n > m /\ log[n].file # log[k].file /\ IsWrite(log[n]) /\ log[n].ok

IsFormatWrite(e) == e.op \in {"POST_CF", "PUT_CF"}

FormatWrites(filename, i) ==
    {k \in 1..Len(log) : IsFormatWrite(log[k]) /\ log[k].file = filename /\ log[k].inst = i}

\* The listed formats whose name is the definition's name.
NameMatches == {j \in 1..Len(existing_formats) :
                   existing_formats[j].name = Get(FormatData, "name", "")}

\* The listing of the current definition's leg succeeded.
Listed(filename) ==
    \E k \in 1..Len(log) : log[k].op = "GET_CF" /\ log[k].file = filename /\ log[k].ok

\* No instance the definition goes to holds a format of its name before the leg:
\* none is listed, or none is on the server when the listing failed.
NoSameNamed ==
    IF Listed(Filename) THEN NameMatches = {}
    ELSE \A i \in Eligible(Filename) : \A g \in Range(remote[i].formats) :
             g.name # Get(FormatData, "name", "")

OneWritePerLeg(presupposed) ==
    /\ (Len(log') = Len(log) + 1 /\ IsFormatWrite(log'[Len(log')])) =>
          LET e == log'[Len(log')]
          IN /\ pc = "sync_format"
             /\ e.file = Filename /\ e.inst = inst
             /\ existing_formats = remote[inst].formats
             /\ FormatWrites(Filename, inst) = {}
             /\ e.op = "POST_CF" <=> NameMatches = {}
             /\ e.op = "PUT_CF" =>
                   e.id = existing_formats[CHOOSE j \in NameMatches :
                                              \A m \in NameMatches : j <= m].id
             /\ (e.op = "POST_CF" /\ e.ok) =>
                   /\ Len(remote'[inst].formats) = Len(remote[inst].formats) + 1
                   /\ \A f \in Range(remote[inst].formats) : f.id # e.id
             /\ (e.op = "PUT_CF" /\ e.ok) =>
                   Len(remote'[inst].formats) = Len(remote[inst].formats)
    /\ (/\ pc = "update_version"
        /\ file_version = parse(V100)
        /\ Filename \notin DOMAIN versions
        /\ Cardinality(Eligible(Filename)) = 1
        /\ NoSameNamed
        /\ presupposed) =>
          /\ \A i \in 1..Len(Instances) :
                Cardinality(FormatWrites(Filename, i)) = (IF i \in Eligible(Filename) THEN 1 ELSE 0)
          /\ \A k \in 1..Len(log) :
                (IsFormatWrite(log[k]) /\ log[k].file = Filename) => log[k].op = "POST_CF"
          /\ versions'[Filename] = parse(V100)

DiskAsLoaded == pc # "start" /\ \A k \in 1..Len(log) : ~IsSave(log[k])

\* C12: when the entry of one file name in version.json does not parse, the entries
\* of the other file names are in the version store all the same, and the
\* definition of that file name is skipped: its instance loop is not entered.
C12_BadStoredVersionSkipsOnlyItsFile ==
    (DiskAsLoaded /\ disk.t = "ok") =>
        /\ \A k \in DOMAIN disk.data :
              (Parseable(disk.data[k]) /\ log = <<>> /\ pc = "load") =>
                  (k \in DOMAIN versions /\ versions[k] = parse(disk.data[k]))
        /\ \A k \in DOMAIN disk.data :
              (~Parseable(disk.data[k]) /\ Decided /\ Filename = k) => ~LegEntered

\* The definitions of the batch whose declared version does not parse.
BadVersion ==
    {j \in 1..Len(custom_formats) :
        /\ custom_formats[j].filename # TemplateFile
        /\ ~Parseable(VersionStr(custom_formats[j].doc))}

GoodVersion ==
    {j \in 1..Len(custom_formats) :
        /\ custom_formats[j].filename # TemplateFile
        /\ Parseable(VersionStr(custom_formats[j].doc))}

\* C13: a definition whose cfSync_version does not parse causes no remote call and
\* no version-store write and does not count for the latest version; a run that
\* returns has decided every other definition by line 225 and has gone to every
\* eligible instance of those that were due.
C13_InvalidVersionSkipsOnlyItsFile ==
    /\ \A j \in BadVersion :
          /\ \A k \in 1..Len(log) : log[k].file # custom_formats[j].filename
          /\ custom_formats[j].filename \notin due
    /\ (PastCleanup /\ pc # "latest" /\ custom_formats # <<>>) => IsLatest(latest_version)
    /\ (pc = "done" /\ custom_formats # <<>>) =>
          \A j \in GoodVersion :
              LET f == custom_formats[j].filename
                  v == parse(VersionStr(custom_formats[j].doc))
              IN IF f \in due
                 THEN /\ \A i \in Eligible(f) :
                            \E k \in 1..Len(log) :
                                log[k].op = "GET_CF" /\ log[k].file = f /\ log[k].inst = i
                      /\ Updates(f) # {}
                 ELSE ~Due(v, StoredVersion(versions, f), latest_version)

\* The first definition of the batch has a version that does not parse; the run
\* has left it alone and has written the format of the second one.
C13_Witness ==
    /\ pc = "done"
    /\ Len(custom_formats) = 2
    /\ 1 \in BadVersion
    /\ custom_formats[2].filename \in due
    /\ \E k \in 1..Len(log) :
          IsFormatWrite(log[k]) /\ log[k].ok /\ log[k].file = custom_formats[2].filename
    /\ \A k \in 1..Len(log) : log[k].file # custom_formats[1].filename

\* The definitions of the batch one of whose specifications has a `fields` that is
\* neither a dict nor a list.
BadFields == {j \in 1..Len(custom_formats) : InvalidFields(custom_formats[j].doc)}

\* C14: for a definition one of whose specifications has a `fields` value that is
\* neither an object nor a sequence, sync_format returns None in every leg: the
\* only remote call of the leg is the listing of the custom formats, no error
\* leaves the leg, and the run goes on to every eligible instance of every due
\* definition.
C14_InvalidFieldsAbandonsOnlyTheLeg ==
    /\ \A j \in BadFields :
          \A k \in 1..Len(log) :
              (log[k].file = custom_formats[j].filename /\ IsRemote(log[k])) =>
                  log[k].op = "GET_CF"
    /\ (pc \in {"get_qp", "profile", "synced"} /\ idx \in BadFields) =>
          (pc = "synced" /\ synced_format = None)
    /\ pc = "raised" => (log # <<>> => IsSave(log[Len(log)]))
    /\ pc = "done" =>
          \A f \in due : \A i \in Eligible(f) :
              \E k \in 1..Len(log) : log[k].op = "GET_CF" /\ log[k].file = f /\ log[k].inst = i

\* Both instances have been listed for a definition with an invalid `fields` and
\* nothing else was called for it; the next definition has been written.
C14_Witness ==
    /\ pc = "done"
    /\ Len(custom_formats) = 2
    /\ 1 \in BadFields
    /\ \A i \in 1..Len(Instances) :
          \E k \in 1..Len(log) :
              /\ log[k].op = "GET_CF" /\ log[k].ok
              /\ log[k].file = custom_formats[1].filename /\ log[k].inst = i
    /\ \E k \in 1..Len(log) :
          IsFormatWrite(log[k]) /\ log[k].ok /\ log[k].file = custom_formats[2].filename

\* ------------------------------------------------------------------ cleanup_versions

AllFiles == {FileA, FileB, FileOld, TemplateFile}

\* Number of files of a directory or of a version file.
MaxFiles == 3

StoredStrs == {V100, V110}

\* Every version file of up to MaxFiles entries.
VersionFiles ==
    {NoDisk} \cup
    {[t |-> "ok", data |-> m] :
        m \in UNION {[ks -> StoredStrs] : ks \in {x \in SUBSET AllFiles : Cardinality(x) <= MaxFiles}}}

\* Every listing of up to MaxFiles of the files, in some order.
Listings ==
    {l \in UNION {[1..n -> AllFiles] : n \in 0..MaxFiles} :
        \A i, j \in 1..Len(l) : i # j => l[i] # l[j]}

\* cleanup_versions about to run, on every version store and every list of
\* file names, the empty one included.
InitCleanup ==
    /\ disk \in VersionFiles
    /\ dir \in {[i \in 1..Len(l) |-> Entry(l[i], DocB("y", V100))] : l \in Listings}
    /\ remote = <<RemoteEmpty, RemoteEmpty>>
    /\ run = 1
    /\ pc = "cleanup"
    /\ versions = load_versions(disk)
    /\ custom_formats = load_custom_formats(dir)
    /\ latest_version = parse(DefaultVersionStr)
    /\ idx = 1
    /\ file_version = parse(DefaultVersionStr)
    /\ stored_version = parse(DefaultVersionStr)
    /\ inst = 1
    /\ existing_formats = <<>>
    /\ synced_format = None
    /\ profiles = <<>>
    /\ fetched = <<>>
    /\ pidx = 1
    /\ failures = 0
    /\ log = <<>>
    /\ prevFailed = FALSE
    /\ prev = NoFailures
    /\ due = {}

NextCleanup ==
    \/ CleanupVersions
    \/ CleanupVersionsSaveFails

SpecCleanup == InitCleanup /\ [][NextCleanup]_vars

\* C6: after cleanup_versions the keys of the store are among the current file
\* names, every removed key was not among them, every key among them keeps its
\* version, and save_versions is called iff a key was removed (a save that succeeds
\* leaves the pruned store in the file, no save leaves the file alone).
C6_Step ==
    pc = "cleanup" =>
        LET current == Range(Keys(custom_formats))
            saved == Len(log') = Len(log) + 1 /\ log'[Len(log')].op = "SAVE_CLEANUP"
        IN /\ DOMAIN versions' \subseteq current
           /\ \A k \in DOMAIN versions \ DOMAIN versions' : k \notin current
           /\ \A k \in DOMAIN versions \cap current :
                 k \in DOMAIN versions' /\ versions'[k] = versions[k]
           /\ saved <=> (DOMAIN versions' # DOMAIN versions)
           /\ ~saved => (log' = log /\ disk' = disk)
           /\ (saved /\ log'[Len(log')].ok) => disk' = Dump(versions')

C6_CleanupPrunes == [][C6_Step]_vars

\* A store with a stale key and a current key has been pruned and saved.
C6_Witness ==
    /\ pc = "latest"
    /\ Len(log) = 1
    /\ log[1].op = "SAVE_CLEANUP" /\ log[1].ok
    /\ FileA \in DOMAIN versions
    /\ Range(Keys(custom_formats)) = {FileA, FileB}
    /\ disk = Dump(versions)

\* ------------------------------------------------------------------ one leg, every input

\* The dicts d, and d with key k set to one of vs.
WithOptional(ds, k, vs) == ds \cup {Put(d, k, v) : d \in ds, v \in vs}

\* Definitions that go to Radarr_001 only.
FormatDocs ==
    WithOptional(
        WithOptional(
            WithOptional({[name |-> "x", cfSync_version |-> V100, cfSync_sonarr |-> FALSE]},
                         "includeCustomFormatWhenRenaming", {FALSE, TRUE}),
            "specifications", {<<SpecShorthand>>, <<SpecList>>, <<SpecList, SpecInvalid>>}),
        "cfSync_score", {5})

\* Custom formats as a server lists them (CustomFormat: id and name, and maybe
\* includeCustomFormatWhenRenaming and specifications).
RemoteFormats(id, name) ==
    WithOptional(
        WithOptional({[id |-> id, name |-> name]},
                     "includeCustomFormatWhenRenaming", {FALSE, TRUE}),
        "specifications", {<<>>, <<SpecList>>})

FormatLists ==
    {<<>>} \cup {<<f>> : f \in RemoteFormats(1, "x")}
    \cup {<<[id |-> 1, name |-> "y", includeCustomFormatWhenRenaming |-> FALSE], f>> :
            f \in RemoteFormats(2, "x")}

\* Number of formatItems over the quality profiles of an instance.
MaxItems == 3
\* Number of quality profiles of an instance.
MaxProfiles == 2

Items == {[format |-> 1, score |-> 0], [format |-> 1, score |-> 5], [format |-> 2, score |-> 0]}

\* Every formatItems list of up to n items.
ItemLists(n) == UNION {[1..k -> Items] : k \in 0..n}

RECURSIVE ItemListSeqs(_, _)
\* Every sequence of n formatItems lists of up to budget items in all.
ItemListSeqs(n, budget) ==
    IF n = 0 THEN {<<>>}
    ELSE UNION {{Append(ls, il) : ls \in ItemListSeqs(n - 1, budget - Len(il))} :
                   il \in ItemLists(budget)}

\* Every list of up to MaxProfiles quality profiles of up to MaxItems items in all.
ProfileLists ==
    UNION {{[j \in 1..n |-> [id |-> j, name |-> "p", formatItems |-> ls[j]]] :
               ls \in ItemListSeqs(n, MaxItems)} : n \in 0..MaxProfiles}

ScoreDocs ==
    {[name |-> "x", includeCustomFormatWhenRenaming |-> FALSE, specifications |-> <<SpecList>>,
      cfSync_version |-> V100, cfSync_sonarr |-> FALSE, cfSync_score |-> sc] : sc \in {0, 5}}

ScoreFormats ==
    << [id |-> 1, name |-> "x", includeCustomFormatWhenRenaming |-> FALSE,
        specifications |-> <<SpecList>>] >>

\* cfSync_instances lists: full names and bare ordinals, of the instances and of
\* others.
InstanceLists ==
    {<<>>, << <<"001">> >>, << <<"002">> >>, << <<"Radarr", "001">> >>,
     << <<"Sonarr", "001">> >>, << <<"Radarr", "002">>, <<"Sonarr", "001">> >>,
     << <<"Sonarr", "002">>, <<"003">> >>}

\* Definitions with every combination of the three cfSync filters.
FilterDocs ==
    WithOptional(
        WithOptional(
            WithOptional({[name |-> "x", cfSync_version |-> V100]},
                         "cfSync_instances", InstanceLists),
            "cfSync_radarr", {FALSE, TRUE}),
        "cfSync_sonarr", {FALSE, TRUE})

\* Definitions that go to both instances, with `fields` of every recognised shape.
FieldsDocs ==
    {[name |-> "x", cfSync_version |-> V100, specifications |-> sp] :
        sp \in {<<SpecShorthand>>, <<SpecList>>, <<SpecNumber, SpecLoose>>,
                <<SpecLoose, SpecShorthand>>}}

LegInputs ==
    {[doc |-> d, server |-> [formats |-> fl, profiles |-> <<ProfileScored>>, nextId |-> 3]] :
        d \in FormatDocs, fl \in FormatLists}
    \cup
    {[doc |-> d, server |-> [formats |-> ScoreFormats, profiles |-> pl, nextId |-> 2]] :
        d \in ScoreDocs, pl \in ProfileLists}
    \cup
    {[doc |-> d, server |-> RemoteEmpty] : d \in FilterDocs}
    \cup
    {[doc |-> d, server |-> s] : d \in FieldsDocs, s \in {RemoteEmpty, RemoteOld}}

\* A directory of one definition and no version file: the run has found the
\* definition due and is at line 229.
InitLeg ==
    \E in \in LegInputs :
        /\ dir = <<Entry(FileA, in.doc)>>
        /\ disk = NoDisk
        /\ remote = <<in.server, RemoteEmpty>>
        /\ run = 1
        /\ pc = "inst"
        /\ versions = load_versions(disk)
        /\ custom_formats = load_custom_formats(dir)
        /\ latest_version = FindLatest(custom_formats, 1, parse(DefaultVersionStr))
        /\ idx = 1
        /\ file_version = parse(VersionStr(in.doc))
        /\ stored_version = StoredVersion(versions, FileA)
        /\ inst = 1
        /\ existing_formats = <<>>
        /\ synced_format = None
        /\ profiles = <<>>
        /\ fetched = <<>>
        /\ pidx = 1
        /\ failures = 0
        /\ log = <<>>
        /\ prevFailed = FALSE
        /\ prev = NoFailures
        /\ due = {FileA}

SpecLeg == InitLeg /\ [][Leg]_vars

\* The calls of the current leg.
ThisLeg == {k \in 1..Len(log) : log[k].file = Filename /\ log[k].inst = inst}

\* The listed format and the payload agree on the three synced fields.
SameSyncedFields(new_format, existing_format) ==
    /\ existing_format.name = new_format.name
    /\ Has(existing_format, "includeCustomFormatWhenRenaming")
    /\ existing_format["includeCustomFormatWhenRenaming"] =
          new_format["includeCustomFormatWhenRenaming"]
    /\ Has(existing_format, "specifications") <=> Has(new_format, "specifications")
    /\ Has(new_format, "specifications") =>
          existing_format["specifications"] = new_format["specifications"]

AfterSyncFormatReturned == pc \in {"get_qp", "profile", "synced"}

\* C9: when the listed formats hold one that agrees with the payload on name,
\* includeCustomFormatWhenRenaming and specifications, sync_format issues no create
\* and no update, returns the listed format, and a declared score is propagated
\* with the id of the listed format.
C9_IdenticalFormatIsNotWritten ==
    (/\ AfterSyncFormatReturned
     /\ ~InvalidFields(FormatData)
     /\ HasExisting(existing_formats, NewFormat.name)
     /\ SameSyncedFields(NewFormat, ExistingFormat)) =>
        /\ \A k \in ThisLeg : log[k].op \notin {"POST_CF", "PUT_CF"}
        /\ synced_format = ExistingFormat
        /\ Has(FormatData, "cfSync_score") =>
              /\ pc = "synced" => \E k \in ThisLeg : log[k].op = "GET_QP"
              /\ \A k \in ThisLeg : log[k].op = "PUT_QP" =>
                    \E p \in Range(fetched) :
                        /\ p.id = log[k].id
                        /\ \E it \in Range(p.formatItems) : it.format = ExistingFormat.id

\* The second listed format is identical to the payload; its score has been
\* written into the profile.
C9_Witness ==
    /\ pc = "synced"
    /\ Len(existing_formats) = 2
    /\ HasExisting(existing_formats, NewFormat.name)
    /\ SameSyncedFields(NewFormat, ExistingFormat)
    /\ \E k \in ThisLeg : log[k].op = "PUT_QP" /\ log[k].ok
    /\ \A k \in ThisLeg : log[k].op \notin {"POST_CF", "PUT_CF"}

\* A profile as lines 348-352 must leave it.
Expected(profile, format_id, score) ==
    [id |-> profile.id, name |-> profile.name,
     formatItems |-> [m \in 1..Len(profile.formatItems) |->
                        IF profile.formatItems[m].format = format_id
                        THEN [format |-> format_id, score |-> score]
                        ELSE profile.formatItems[m]]]

NeedsWrite(profile, format_id, score) ==
    \E it \in Range(profile.formatItems) : it.format = format_id /\ it.score # score

ProfileWrites(profile_id) == {k \in ThisLeg : log[k].op = "PUT_QP" /\ log[k].id = profile_id}

\* C10: of the profiles sync_format_score has gone through, those with an item of
\* the synced format whose score differs from the declared one have been written
\* once, in full, every item of the format carrying the declared score and every
\* other item as it was; the others have not been written.
C10_ProfileWrittenIffScoreChanges ==
    (pc \in {"profile", "synced"} /\ synced_format # None /\ Has(FormatData, "cfSync_score")) =>
        \A j \in 1..Len(fetched) :
            j < pidx =>
                /\ Cardinality(ProfileWrites(fetched[j].id)) =
                      (IF NeedsWrite(fetched[j], synced_format.id, Score) THEN 1 ELSE 0)
                /\ remote[inst].profiles[j] =
                      (IF NeedsWrite(fetched[j], synced_format.id, Score)
                       THEN Expected(fetched[j], synced_format.id, Score)
                       ELSE fetched[j])

\* Of two profiles the first is written, both of its items of the format being set
\* and the second holding the score already.
C10_Witness ==
    /\ pc = "synced"
    /\ Len(fetched) = 2
    /\ Len(fetched[1].formatItems) = 2
    /\ \A it \in Range(fetched[1].formatItems) : it.format = synced_format.id
    /\ NeedsWrite(fetched[1], synced_format.id, Score)
    /\ ~NeedsWrite(fetched[2], synced_format.id, Score)
    /\ fetched[2].formatItems # <<>>
    /\ Cardinality(ProfileWrites(1)) = 1
    /\ ProfileWrites(2) = {}

\* The family of an instance name and the part after its last underscore.
Family(instance_name) == instance_name[1]

Ordinal(instance_name) == instance_name[Len(instance_name)]

FamilyFlag(instance_name) ==
    IF Family(instance_name) = "Radarr" THEN "cfSync_radarr" ELSE "cfSync_sonarr"

\* Eligibility as the filters of the definition state it.
IsEligible(format_data, instance_name) ==
    IF "cfSync_instances" \in DOMAIN format_data
    THEN \E m \in 1..Len(format_data["cfSync_instances"]) :
            \/ format_data["cfSync_instances"][m] = instance_name
            \/ format_data["cfSync_instances"][m] = <<Ordinal(instance_name)>>
    ELSE IF FamilyFlag(instance_name) \in DOMAIN format_data
         THEN format_data[FamilyFlag(instance_name)]
         ELSE TRUE

Called(i) == {k \in 1..Len(log) : log[k].file = Filename /\ log[k].inst = i}

\* C15: an instance is called for a definition only if it is eligible (by
\* cfSync_instances when declared: its full name or its ordinal is in the list,
\* whatever the family flags say; else by the flag of its family, true when
\* absent), and every eligible instance the loop has passed has been listed.
C15_EligibilityDecidesTheCalls ==
    \A i \in 1..Len(Instances) :
        /\ Called(i) # {} => IsEligible(FormatData, Instances[i])
        /\ (i = inst /\ pc # "inst") => IsEligible(FormatData, Instances[i])
        /\ (i < inst /\ IsEligible(FormatData, Instances[i])) =>
              \E k \in Called(i) : log[k].op = "GET_CF"

\* A definition lists the ordinal 001 and sets cfSync_sonarr to false: both
\* instances have been written.
C15_Witness ==
    /\ pc = "inst"
    /\ inst > Len(Instances)
    /\ Has(FormatData, "cfSync_instances")
    /\ FormatData["cfSync_instances"] = << <<"001">> >>
    /\ Has(FormatData, "cfSync_sonarr") /\ ~FormatData["cfSync_sonarr"]
    /\ \A i \in 1..Len(Instances) : \E k \in Called(i) : log[k].op = "POST_CF" /\ log[k].ok

\* Some *.json file of the directory is not JSON.
HasMalformed == \E i \in 1..Len(dir) : dir[i].filename[2] = "json" /\ dir[i].json = "bad"

\* C16: with a malformed *.json file in the directory every run ends with the error
\* raised out of sync_custom_formats before anything is done: no remote call, no
\* write of version.json, the version store as it was loaded, the servers and the
\* file untouched.
C16_MalformedJsonAbortsTheRun ==
    HasMalformed =>
        /\ pc \in {"start", "load", "raised"}
        /\ log = <<>>
        /\ due = {}
        /\ disk \in Disks
        /\ remote \in Remotes
        /\ pc \in {"load", "raised"} => versions = load_versions(disk)

\* A run has been aborted by a malformed file that follows a well-formed one, the
\* version file holding an entry of a file that is gone.
C16_Witness ==
    /\ HasMalformed
    /\ pc = "raised"
    /\ Len(dir) = 2 /\ dir[1].json = "ok" /\ dir[1].filename[2] = "json"
    /\ FileOld \in DOMAIN versions
    /\ disk.t = "ok" /\ FileOld \in DOMAIN disk.data

\* The current definition as it is in its file.
OrigDoc == (CHOOSE e \in Range(dir) : e.filename = Filename).doc

\* A list of {name, value} pairs of strings.
FieldsNormal(f) ==
    /\ f.t = "list"
    /\ \A m \in 1..Len(f.v) :
          DOMAIN f.v[m] = {"name", "value"} /\ f.v[m].name.t = "str" /\ f.v[m].value.t = "str"

\* What {"value": v} becomes: the pair of "value" and v as it is (kept), or of
\* "value" and str(v).
ShorthandResult(o, kept) ==
    << [name |-> [t |-> "str", s |-> "value"],
        value |-> IF kept THEN o.v[1]["value"]
                  ELSE [t |-> "str", s |-> o.v[1]["value"].s]] >>

\* The format a successful write of leg (Filename, i) left on the server.
Stored(i) ==
    {g \in Range(remote[i].formats) :
        \E k \in Called(i) : IsFormatWrite(log[k]) /\ log[k].ok /\ log[k].id = g.id}

NormalizationLaw(kept) ==
    (/\ pc \in {"get_qp", "profile", "synced"}
     /\ Has(OrigDoc, "specifications")
     /\ ~InvalidFields(OrigDoc)) =>
        /\ \A j \in 1..Len(OrigDoc["specifications"]) :
              Has(OrigDoc["specifications"][j], "fields") =>
                  LET o == OrigDoc["specifications"][j].fields
                      f == FormatData["specifications"][j].fields
                  IN /\ FieldsNormal(f)
                     /\ NormalizeFields(f) = f
                     /\ (o.t = "dict" /\ DOMAIN o.v[1] = {"value"}) =>
                           f.v = ShorthandResult(o, kept)
                     /\ FieldsNormal(o) => f = o
        /\ \A i \in 1..Len(Instances) : \A g \in Stored(i) :
              g["specifications"] = FormatData["specifications"]

\* C17 as stated: after sync_format every `fields` of the definition is a list of
\* {name, value} pairs that normalising again leaves as it is, {"value": v} has
\* become [{"name": "value", "value": v}], and what the instances were sent has
\* the specifications the definition now has.
C17_ShorthandKeepsItsValue == NormalizationLaw(TRUE)

\* C17 amended: as above, {"value": v} having become
\* [{"name": "value", "value": str(v)}].
C17_NormalizationIsIdempotent == NormalizationLaw(FALSE)

\* Both instances have been sent a definition whose fields were {"value": 5} and a
\* list with a nameless field, and hold the same specifications.
C17_Witness ==
    /\ pc = "synced"
    /\ inst = 2
    /\ Has(OrigDoc, "specifications")
    /\ OrigDoc["specifications"] = <<SpecNumber, SpecLoose>>
    /\ FormatData["specifications"] # OrigDoc["specifications"]
    /\ Stored(1) # {} /\ Stored(2) # {}
    /\ \A g \in Stored(1) : \A h \in Stored(2) : g["specifications"] = h["specifications"]

\* The definitions of the batch whose version is lower than the latest version.
Lagging ==
    {j \in GoodVersion : VLess(parse(VersionStr(custom_formats[j].doc)), latest_version)}

\* C18: in every run a definition whose version is lower than the latest version
\* of the batch is due when the loop of line 211 comes to it, whatever is stored
\* for it; once the loop is past it its declared version has been recorded, once,
\* and a run that returns has listed every eligible instance for it.
C18_LaggingDefinitionIsDueEveryRun ==
    \A j \in Lagging :
        LET f == custom_formats[j].filename
            v == parse(VersionStr(custom_formats[j].doc))
        IN /\ (j < idx \/ (j = idx /\ Decided)) => f \in due
           /\ (j < idx /\ pc # "latest") =>
                 /\ Cardinality(Updates(f)) = 1
                 /\ f \in DOMAIN versions /\ versions[f] = v
                 /\ (\A k \in Updates(f) : log[k].ok /\ k = Len(log)) =>
                        (disk.t = "ok" /\ f \in DOMAIN disk.data /\ disk.data[f] = str(v))
           /\ pc = "done" =>
                 \A i \in Eligible(f) :
                     \E k \in 1..Len(log) :
                         log[k].op = "GET_CF" /\ log[k].file = f /\ log[k].inst = i

\* The second run, after a first run without failure, has found the last
\* definition stored at its declared version and behind the latest version, has
\* listed an instance for it and recorded its version again.
C18_Witness ==
    /\ run = 2
    /\ pc = "done"
    /\ ~prevFailed
    /\ Len(custom_formats) \in Lagging
    /\ stored_version = file_version
    /\ file_version = parse(VersionStr(custom_formats[Len(custom_formats)].doc))
    /\ \E k \in 1..Len(log) :
          /\ log[k].op = "GET_CF" /\ log[k].ok
          /\ log[k].file = custom_formats[Len(custom_formats)].filename
    /\ Updates(custom_formats[Len(custom_formats)].filename) # {}

\* The version loop of lines 197-209 is done and the run is in or past the loop
\* of line 211.
InLoop == pc \in {"def", "no_update", "inst", "sync_format", "get_qp", "profile", "synced",
                  "update_version", "done"}

NotRetried(recorded) ==
    (run >= 2 /\ recorded) =>
        /\ pc = "start" =>
              \A f \in prev.legs :
                  /\ disk.t = "ok" /\ f \in DOMAIN disk.data
                  /\ \E e \in Range(dir) : e.filename = f /\ disk.data[f] = VersionStr(e.doc)
        /\ InLoop =>
              \A j \in GoodVersion :
                  LET f == custom_formats[j].filename
                  IN (/\ f \in prev.legs
                      /\ parse(VersionStr(custom_formats[j].doc)) = latest_version) =>
                         /\ f \notin due
                         /\ \A k \in 1..Len(log) : log[k].file # f

DistinctFormatNames(formats) ==
    \A j, m \in 1..Len(formats) : j # m => formats[j].name # formats[m].name

\* C20: the custom formats of every instance, whose names are pairwise distinct
\* before the first run, have pairwise distinct names in every state of every run,
\* also when two files declare the same name.
C20_RemoteNamesStayDistinct ==
    \A i \in 1..Len(Instances) : DistinctFormatNames(remote[i].formats)

\* Two files declare the same name: the format the first one created has been
\* updated for the second one, and the instance holds one format of that name.
C20_Witness ==
    /\ ~DistinctNames(dir)
    /\ \E k, m \in 1..Len(log) :
          /\ k < m
          /\ log[k].op = "POST_CF" /\ log[k].ok /\ log[k].file = FileA
          /\ log[m].op = "PUT_CF" /\ log[m].ok /\ log[m].file = FileB
          /\ log[m].inst = log[k].inst /\ log[m].id = log[k].id
          /\ Cardinality({j \in 1..Len(remote[log[k].inst].formats) :
                             remote[log[k].inst].formats[j].name = "x"}) = 1

====
